---- MODULE Spec2Model ----
(***************************************************************************)
(* NEF to JPG converter (scripts/nef_to_jpg.py): the path utilities, the   *)
(* embedded-JPEG byte scan, the strategy chain of convert_nef_to_jpg and   *)
(* the batch driver main, over a filesystem that maps each existing file   *)
(* to its bytes.  Paths are relative to the base directory.                *)
(***************************************************************************)
EXTENDS Integers, Sequences, FiniteSets, TLC

\* ---------------------------------------------------------------- bounds
\* The largest number of raw files in the scanned tree.
MaxFiles == 2
\* The longest input buffer of the single-conversion specification.
MaxLen == 6
\* The largest number of earlier complete runs whose outputs already exist.
MaxPrior == 1

\* ------------------------------------------------------------- pathlib
\* A path is [dir |-> <<component, ...>>, name |-> <<character, ...>>].
NEF == <<".", "n", "e", "f">>
JPG == <<".", "j", "p", "g">>

\* Sentinels of the same shape as a path: a strategy's "None", an exception
\* leaving the callee, and a call that never returns.
NoPath == [dir |-> <<>>, name |-> <<>>]
Raised == [dir |-> <<>>, name |-> <<"!">>]
Hang == [dir |-> <<>>, name |-> <<"~">>]
IsPath(p) == p \notin {NoPath, Raised, Hang}

\* str.lower() on the characters the model's names use.
Lower(c) ==
    CASE c = "N" -> "n" [] c = "E" -> "e" [] c = "F" -> "f" [] OTHER -> c
LowerName(name) == [i \in 1..Len(name) |-> Lower(name[i])]
EndsWith(s, t) ==
    Len(s) >= Len(t) /\ SubSeq(s, Len(s) - Len(t) + 1, Len(s)) = t

\* name.rfind("."), 1-based, 0 when there is none.
RFindDot(name) ==
    LET I == {i \in 1..Len(name) : name[i] = "."}
    IN  IF I = {} THEN 0 ELSE CHOOSE i \in I : \A j \in I : j <= i

\* PurePath.suffix: the text from the last dot, unless that dot is the first
\* or the last character of the name.
Suffix(name) ==
    LET i == RFindDot(name)
    IN  IF 1 < i /\ i < Len(name) THEN SubSeq(name, i, Len(name)) ELSE <<>>

\* PurePath.stem
StemOf(name) == SubSeq(name, 1, Len(name) - Len(Suffix(name)))

\* PurePath.with_suffix(s): the old suffix, if any, is replaced by s.
WithSuffix(p, s) == [p EXCEPT !.name = StemOf(p.name) \o s]

\* PurePath.with_name(n)
WithName(p, n) == [p EXCEPT !.name = n]

\* ---------------------------------------------------------- unique_path
\* The i-th candidate of unique_path's loop.
UniqueCandidate(path, i) ==
    LET base == WithSuffix(path, <<>>)
    IN  WithSuffix(WithName(base, base.name \o <<"_", ToString(i)>>),
                   Suffix(path.name))

\* A variant whose loop takes its first candidate untested.
UniqueFromUntested(path, files, i) == UniqueCandidate(path, i)

\* The loop from counter i on.  Over a finite set of files the candidates
\* are either pairwise distinct, and one of the first |files| + 1 is free,
\* or the loop has no exit: past that counter the call never returns.
RECURSIVE UniqueFrom(_, _, _)
UniqueFrom(path, files, i) ==
    IF i > Cardinality(files) + 1 THEN Hang
    ELSE LET cand == UniqueCandidate(path, i)
         IN  IF cand \notin files THEN cand
             ELSE UniqueFrom(path, files, i + 1)

\* A variant that skips the existence test.
UniquePathNoCheck(path, files) == path

UniquePath(path, files) ==
    IF path \notin files THEN path ELSE UniqueFrom(path, files, 1)

\* ------------------------------------------------------------ the bytes
Byte == {0, 216, 217, 255}
SOI == <<255, 216, 255>>
EOI == <<255, 217>>

\* The JPEG encoder's output for a pixel buffer (Image.save, format JPEG):
\* a complete stream.
EncodedJpeg == SOI \o <<0>> \o EOI
\* The bytes of an embedded preview whose format is ThumbFormat.JPEG.
ThumbJpeg == SOI \o <<216>> \o EOI

StartsWith(s, t) == Len(s) >= Len(t) /\ SubSeq(s, 1, Len(t)) = t

\* What a write that raises leaves in the file that open(target, "wb") has
\* created: an incomplete prefix of the bytes.  No operation reads an output
\* back, so the empty prefix stands for them all.
Partials(bytes) == {SubSeq(bytes, 1, 0)}

\* The filesystem with `bytes` written to path p.
WriteFile(f, p, bytes) ==
    [q \in DOMAIN f \cup {p} |-> IF q = p THEN bytes ELSE f[q]]

\* --------------------------------------------------- the embedded scan
\* bytes.find(pat, i): the 0-based offset of the first occurrence at or
\* after i, or -1.
Find(data, pat, i) ==
    LET J == {j \in i..(Len(data) - Len(pat)) :
                 \A k \in 1..Len(pat) : data[j + k] = pat[k]}
    IN  IF J = {} THEN -1 ELSE CHOOSE j \in J : \A m \in J : j <= m

\* A variant that resumes the search after the whole marker.
RECURSIVE StartsFromDisjoint(_, _)
StartsFromDisjoint(data, i) ==
    LET j == Find(data, SOI, i)
    IN  IF j = -1 THEN <<>> ELSE <<j>> \o StartsFromDisjoint(data, j + Len(SOI))

\* The offsets of every start marker, the overlapping ones included.
RECURSIVE StartsFrom(_, _)
StartsFrom(data, i) ==
    LET j == Find(data, SOI, i)
    IN  IF j = -1 THEN <<>> ELSE <<j>> \o StartsFrom(data, j + 1)

\* A variant whose range stops short of the end marker.
CandidateOfExclusive(s, j) == <<s, j>>

\* The candidate of the start marker at s whose end marker is found at j.
CandidateOf(s, j) == <<s, j + Len(EOI)>>

\* The candidate ranges, in the order of their start markers.
RECURSIVE CandidatesOf(_, _)
CandidatesOf(data, starts) ==
    IF starts = <<>> THEN <<>>
    ELSE LET s == Head(starts)
             j == Find(data, EOI, s + 2)
         IN  (IF j # -1 THEN <<CandidateOf(s, j)>> ELSE <<>>)
             \o CandidatesOf(data, Tail(starts))

Candidates(data) == CandidatesOf(data, StartsFrom(data, 0))

\* A variant that takes the first candidate.
FirstCandidate(cands) == cands[1]

\* A variant that takes the last candidate of the greatest length.
LastLongestCandidate(cands) ==
    LET key(c) == c[2] - c[1]
        i == CHOOSE i \in 1..Len(cands) :
                 /\ \A k \in 1..Len(cands) : key(cands[k]) <= key(cands[i])
                 /\ \A k \in (i + 1)..Len(cands) : key(cands[k]) < key(cands[i])
    IN  cands[i]

\* max(candidates, key = length): the first candidate of the greatest length.
LongestCandidate(cands) ==
    LET key(c) == c[2] - c[1]
        i == CHOOSE i \in 1..Len(cands) :
                 /\ \A k \in 1..Len(cands) : key(cands[k]) <= key(cands[i])
                 /\ \A k \in 1..(i - 1) : key(cands[k]) < key(cands[i])
    IN  cands[i]

\* data[s:e]
Slice(data, s, e) == SubSeq(data, s + 1, e)

\* ------------------------------------------------------- the pixels
\* An image is a sequence of rows of pixels, all of one length.
Height(img) == Len(img)
Width(img) == Len(img[1])

\* Image.transpose(FLIP_LEFT_RIGHT)
FlipLeftRight(img) ==
    [r \in 1..Height(img) |-> [c \in 1..Width(img) |-> img[r][Width(img) + 1 - c]]]

\* Image.transpose(FLIP_TOP_BOTTOM)
FlipTopBottom(img) == [r \in 1..Height(img) |-> img[Height(img) + 1 - r]]

\* Image.rotate(90, expand=True): a quarter turn counter-clockwise.
Rotate90(img) ==
    [r \in 1..Width(img) |-> [c \in 1..Height(img) |-> img[c][Width(img) + 1 - r]]]

\* Image.rotate(angle, expand=True) for the angles the script uses.
Rotate(img, angle) ==
    CASE angle = 90 -> Rotate90(img)
      [] angle = 180 -> Rotate90(Rotate90(img))
      [] angle = 270 -> Rotate90(Rotate90(Rotate90(img)))

\* A variant that turns "Rotated 90 CW" the other way.
ApplyOrientationSwapped(val, img) ==
    CASE val = "Rotated 180" -> Rotate(img, 180)
      [] val = "Rotated 90 CW" -> Rotate(img, 90)
      [] val = "Rotated 90 CCW" -> Rotate(img, 270)
      [] val = "Mirrored" -> FlipLeftRight(img)
      [] val = "Mirrored horizontal and rotated 90 CW" -> Rotate(FlipTopBottom(img), 270)
      [] val = "Mirrored horizontal and rotated 90 CCW" -> Rotate(FlipTopBottom(img), 90)
      [] val = "Mirrored vertical" -> FlipTopBottom(img)
      [] OTHER -> img

\* The if/elif chain on str(orientation); "" stands for no orientation tag.
ApplyOrientation(val, img) ==
    CASE val = "Rotated 180" -> Rotate(img, 180)
      [] val = "Rotated 90 CW" -> Rotate(img, 270)
      [] val = "Rotated 90 CCW" -> Rotate(img, 90)
      [] val = "Mirrored" -> FlipLeftRight(img)
      [] val = "Mirrored horizontal and rotated 90 CW" -> Rotate(FlipTopBottom(img), 270)
      [] val = "Mirrored horizontal and rotated 90 CCW" -> Rotate(FlipTopBottom(img), 90)
      [] val = "Mirrored vertical" -> FlipTopBottom(img)
      [] OTHER -> img

\* The record of one img.save: the file the orientation was read from
\* (NoPath when none was opened), the code obtained ("" when none), the
\* image handed to the encoder, and the quality handed to it (0 until the
\* call).  NoSave: img.save was not called.
Save(src, val, img) == [src |-> src, val |-> val, img |-> img, q |-> 0]
WithQuality(sv, q) == [sv EXCEPT !.q = q]
NoSave == Save(NoPath, "", <<>>)

\* nef_path = out_path.with_suffix('.nef')
OrientationSource(out) == WithSuffix(out, NEF)

\* A variant in which a read that raises leaves the image transformed.
OrientationBlockHalfDone(arr, out, f, tags) ==
    LET nef_path == WithSuffix(out, NEF)
    IN  IF nef_path \notin DOMAIN f \/ nef_path \notin DOMAIN tags
        THEN {Save(NoPath, "", arr)}
        ELSE {Save(nef_path, "", ApplyOrientation(tags[nef_path], arr)),
              Save(nef_path, tags[nef_path], ApplyOrientation(tags[nef_path], arr))}

\* The orientation block of _save_jpeg_array on the array arr: nef_path does
\* not exist, or opening or parsing it raises, and the image stays as it
\* is; or the tag is read and the chain applied.  tags maps a raw file to
\* the orientation exifread finds in it.
OrientationBlock(arr, out, f, tags) ==
    LET nef_path == OrientationSource(out)
    IN  IF nef_path \notin DOMAIN f \/ nef_path \notin DOMAIN tags
        THEN {Save(NoPath, "", arr)}
        ELSE {Save(nef_path, "", arr),
              Save(nef_path, tags[nef_path], ApplyOrientation(tags[nef_path], arr))}

\* --quality's default, and the quality _try_libraw_thumb encodes with.
DefaultQuality == 90
ThumbQuality == 90

\* ------------------------------------------------------ the strategies
\* A strategy's possible results, one for each way its external calls (the
\* raw decoder, the encoder, the filesystem) can go: the filesystem it
\* leaves, its return value p (a path, NoPath for None, Raised, Hang) and
\* the set w of paths it opened for writing, and the record sv of the
\* img.save it made.
Result(f, p, w) == [fs |-> f, p |-> p, w |-> w, sv |-> NoSave]
Saving(r, sv) == [r EXCEPT !.sv = sv]

\* "except Exception: return None" around a step's body.
Caught(r) == IF r.p = Raised THEN [r EXCEPT !.p = NoPath] ELSE r

\* _save_jpeg_array.  The orientation block only reads, inside a try that
\* swallows every exception.  Image.fromarray or mkdir may raise before any
\* file is opened; Image.save may raise after opening the target, which
\* then is removed again or is left holding part of the stream.
SaveJpegArray(arr, out, q, f, tags) ==
    LET target == UniquePath(WithSuffix(out, JPG), DOMAIN f)
    IN  {Result(f, Raised, {})}
        \cup (IF target = Hang THEN {Result(f, Hang, {})}
              ELSE UNION {
                     {Saving(Result(WriteFile(f, target, part), Raised, {target}),
                             WithQuality(sv, q)) :
                            part \in Partials(EncodedJpeg)}
                     \cup {Saving(Result(WriteFile(f, target, EncodedJpeg), target,
                                        {target}), WithQuality(sv, q))} :
                     sv \in OrientationBlock(arr, out, f, tags)})

\* _try_raw_full: postprocess raises, or the array is saved.
TryRawFull(arr, out, q, f, tags) ==
    {Result(f, NoPath, {})} \cup {Caught(r) : r \in SaveJpegArray(arr, out, q, f, tags)}

\* _try_raw_half
TryRawHalf(arr, out, q, f, tags) ==
    {Result(f, NoPath, {})} \cup {Caught(r) : r \in SaveJpegArray(arr, out, q, f, tags)}

\* _try_libraw_thumb: extract_thumb raises; or the target is resolved and a
\* JPEG preview is written verbatim; or an RGB preview goes to
\* _save_jpeg_array.
TryLibrawThumb(arr, out, f, tags) ==
    LET target == UniquePath(WithSuffix(out, JPG), DOMAIN f)
    IN  {Result(f, NoPath, {})}
        \cup (IF target = Hang THEN {Result(f, Hang, {})}
              ELSE {Result(WriteFile(f, target, part), NoPath, {target}) :
                       part \in Partials(ThumbJpeg)}
                   \cup {Result(WriteFile(f, target, ThumbJpeg), target,
                                {target})}
                   \cup {Caught(r) : r \in SaveJpegArray(arr, out, ThumbQuality, f, tags)})

\* A variant that writes over the file it scanned.
ScanTargetInPlace(in, out, files) == in

\* The path _try_scan_embedded_jpeg opens for writing.
ScanTarget(in, out, files) == UniquePath(WithSuffix(out, JPG), files)

\* _try_scan_embedded_jpeg: nothing here is caught, so a failing read_bytes,
\* mkdir, open or write raises to the caller.
TryScanEmbeddedJpeg(in, out, f) ==
    LET data == f[in]
        cands == Candidates(data)
    IN  {Result(f, Raised, {})}
        \cup (IF cands = <<>> THEN {Result(f, NoPath, {})}
              ELSE LET c == LongestCandidate(cands)
                       bytes == Slice(data, c[1], c[2])
                       target == ScanTarget(in, out, DOMAIN f)
                   IN  IF target = Hang THEN {Result(f, Hang, {})}
                       ELSE {Result(WriteFile(f, target, part), Raised,
                                    {target}) : part \in Partials(bytes)}
                            \cup {Result(WriteFile(f, target, bytes), target,
                                         {target})})

\* ------------------------------------- convert_nef_to_jpg's control flow
Modes == {"auto", "raw", "embedded"}

\* After the raw block (normally or through its except clause): the scan,
\* or the final raise.
AfterRawBlock(m) == IF m \in {"auto", "embedded"} THEN "scan" ELSE "fail"

\* A variant without the mode test.
EntryAlwaysRaw(m) == "open"

\* if mode in ("auto", "raw"): open the raw container.
Entry(m) == IF m \in {"auto", "raw"} THEN "open" ELSE AfterRawBlock(m)

\* A variant in which a container that cannot be opened ends the conversion.
AfterOpenFatal(m, opened) == IF opened THEN "full" ELSE "fail"

\* rawpy.imread returned a container, or raised into the except clause.
AfterOpen(m, opened) == IF opened THEN "full" ELSE AfterRawBlock(m)

AfterFull(m, p) == IF IsPath(p) THEN "return" ELSE "half"

\* A variant without the raw-mode raise.
AfterHalfNoModeCheck(m, p) == IF IsPath(p) THEN "return" ELSE "thumb"

\* In raw mode the RuntimeError raised here is caught by the except clause
\* of the raw block.
AfterHalf(m, p) ==
    IF IsPath(p) THEN "return"
    ELSE IF m = "raw" THEN AfterRawBlock(m) ELSE "thumb"

\* A variant that does not return on success.
AfterThumbNoReturn(m, p) == AfterRawBlock(m)

AfterThumb(m, p) == IF IsPath(p) THEN "return" ELSE AfterRawBlock(m)

\* A variant that returns whenever the scan did not raise.
AfterScanSwallow(m, p) == IF p = Raised THEN "fail" ELSE "return"

\* No candidate raises RuntimeError, whatever the mode; an exception of the
\* scan itself leaves convert_nef_to_jpg as well.
AfterScan(m, p) == IF IsPath(p) THEN "return" ELSE "fail"

\* ------------------------------------------------------ iter_nef_files
\* os.walk visits every directory; only the directory root/results itself
\* is skipped.
IterNefFiles(f) ==
    {p \in DOMAIN f : p.dir # <<"results">> /\ EndsWith(LowerName(p.name), NEF)}

IsProperPrefix(d, e) == Len(d) < Len(e) /\ SubSeq(e, 1, Len(d)) = d

\* The orders os.walk can yield the files in: top-down, a directory's files
\* before those of the directories below it.
WalkOrders(S) ==
    {o \in [1..Cardinality(S) -> S] :
        /\ \A i, j \in DOMAIN o : i # j => o[i] # o[j]
        /\ \A i, j \in DOMAIN o : IsProperPrefix(o[i].dir, o[j].dir) => i < j}

\* main: results_dir / rel / (nef.stem + ".jpg")
OutPath(nef) == [dir |-> <<"results">> \o nef.dir, name |-> StemOf(nef.name) \o JPG]

\* A variant that counts every file as converted.
TallyOkAlways(n, returned) == n + 1

\* main: "ok += 1" after a normal return, "failed += 1" in the handler.
TallyOk(n, returned) == IF returned THEN n + 1 ELSE n
TallyFailed(n, returned) == IF returned THEN n ELSE n + 1

\* A variant that always reports success.
ExitCodeZero(nfailed) == 0

\* main: return 0 if failed == 0 else 1
ExitCode(nfailed) == IF nfailed = 0 THEN 0 ELSE 1

\* ------------------------------------------------------------ the state
VARIABLES
    fs,         \* the filesystem: existing file path -> its bytes
    mode,       \* args.mode
    nef_files,  \* main: the enumerated raw files, in order
    idx,        \* main: 1-based index of the file being converted
    ok,         \* main: files converted
    failed,     \* main: files failed
    exitCode,   \* main's return value, -1 until it returns
    pc,         \* the position in main / convert_nef_to_jpg
    in_path,    \* convert_nef_to_jpg: the raw file
    out_path,   \* convert_nef_to_jpg: out_path.with_suffix(".jpg")
    raw,        \* the raw container: "none", "opened", "failed"
    attempts,   \* history: the strategies tried for this file, with results
    writes,     \* history: the paths opened for writing for this file
    fsBefore,   \* history: the filesystem when this file's conversion began
    fs0,        \* history: the filesystem when the run began
    exif,       \* raw file path -> the orientation exifread finds in it
    pixels,     \* the array the raw decoder hands over
    saved,      \* history: the img.save made by the latest step
    quality,    \* args.quality
    writers,    \* concurrent use: each writer's position and target path
    produced    \* history: the conversions of this run that returned

vars == <<fs, mode, nef_files, idx, ok, failed, exitCode, pc, in_path,
          out_path, raw, attempts, writes, fsBefore, fs0, exif, pixels, saved,
          quality, writers, produced>>

P(dir, name) == [dir |-> dir, name |-> name]

\* The raw files a scanned tree may hold, each with its bytes: two names of
\* one stem, a subdirectory, a stem with a dot, and files inside results.
Universe ==
    { [path |-> P(<<>>, <<"a">> \o NEF),
       data |-> <<0, 255, 216, 255, 0, 255, 217, 0>>, orient |-> "Rotated 90 CW"],
      [path |-> P(<<>>, <<"a", ".", "N", "E", "F">>), data |-> <<0>>, orient |-> ""],
      [path |-> P(<<"sub">>, <<"a">> \o NEF), data |-> <<255, 216, 255, 217>>,
       orient |-> "Mirrored"],
      [path |-> P(<<>>, <<"a", ".", "b">> \o NEF),
       data |-> <<255, 216, 255, 216, 255, 217, 255, 217>>, orient |-> ""],
      [path |-> P(<<>>, <<"a", ".", "b", ".", "N", "E", "F">>),
       data |-> <<255, 216, 255, 217>>, orient |-> ""],
      [path |-> P(<<"results">>, <<"r">> \o NEF), data |-> <<255, 216, 255, 217>>,
       orient |-> ""],
      [path |-> P(<<"results", "sub">>, <<"a">> \o NEF), data |-> <<255, 216, 255>>,
       orient |-> "Rotated 180"] }

InputFs(S) == [p \in {u.path : u \in S} |-> (CHOOSE u \in S : u.path = p).data]
InputExif(S) == [p \in {u.path : u \in S} |-> (CHOOSE u \in S : u.path = p).orient]

\* The decoder's output in the runs that do not vary it: two rows of three
\* pixels, all different.
DecodedPixels == <<<<1, 2, 3>>, <<4, 5, 6>>>>
NoExif == [p \in {} |-> ""]

\* An earlier run in which every conversion succeeded by a raw decode.
RECURSIVE ConvertAll(_, _)
ConvertAll(f, todo) ==
    IF todo = {} THEN f
    ELSE LET n == CHOOSE n \in todo : TRUE
             t == UniquePath(WithSuffix(OutPath(n), JPG), DOMAIN f)
         IN  ConvertAll(IF t = Hang THEN f ELSE WriteFile(f, t, EncodedJpeg),
                        todo \ {n})

RECURSIVE AfterRuns(_, _)
AfterRuns(k, f) ==
    IF k = 0 THEN f ELSE AfterRuns(k - 1, ConvertAll(f, IterNefFiles(f)))

\* main is entered: a tree of raw files, the outputs of earlier runs.
Init ==
    /\ \E S \in SUBSET Universe, k \in 0..MaxPrior :
          /\ Cardinality(S) <= MaxFiles
          /\ fs = AfterRuns(k, InputFs(S))
          /\ exif = InputExif(S)
    /\ pixels = DecodedPixels
    /\ saved = NoSave
    /\ quality = DefaultQuality
    /\ writers = <<>>
    /\ produced = <<>>
    /\ mode \in Modes
    /\ nef_files = <<>>
    /\ idx = 0
    /\ ok = 0
    /\ failed = 0
    /\ exitCode = -1
    /\ pc = "start"
    /\ in_path = NoPath
    /\ out_path = NoPath
    /\ raw = "none"
    /\ attempts = <<>>
    /\ writes = {}
    /\ fsBefore = fs
    /\ fs0 = fs

\* ------------------------------------------------- convert_nef_to_jpg
\* One attempted strategy: its effect on the files, its record in the
\* history, and where control goes.
Attempt(name, r, next) ==
    /\ fs' = r.fs
    /\ attempts' = Append(attempts, [s |-> name, p |-> r.p])
    /\ writes' = writes \cup r.w
    /\ pc' = IF r.p = Hang THEN "hung" ELSE next
    /\ saved' = r.sv
    /\ UNCHANGED <<mode, nef_files, idx, ok, failed, exitCode, in_path,
                   out_path, raw, fsBefore, fs0, exif, pixels, quality,
                   writers, produced>>

\* with rawpy.imread(str(in_path)) as raw
OpenRaw ==
    /\ pc = "open"
    /\ \E opened \in BOOLEAN :
          /\ raw' = IF opened THEN "opened" ELSE "failed"
          /\ pc' = AfterOpen(mode, opened)
    /\ UNCHANGED <<fs, mode, nef_files, idx, ok, failed, exitCode, in_path,
                   out_path, attempts, writes, fsBefore, fs0, exif, pixels, saved,
                   quality, writers, produced>>

RawFull ==
    /\ pc = "full"
    /\ \E r \in TryRawFull(pixels, out_path, quality, fs, exif) :
          Attempt("full", r, AfterFull(mode, r.p))

RawHalf ==
    /\ pc = "half"
    /\ \E r \in TryRawHalf(pixels, out_path, quality, fs, exif) :
          Attempt("half", r, AfterHalf(mode, r.p))

LibrawThumb ==
    /\ pc = "thumb"
    /\ \E r \in TryLibrawThumb(pixels, out_path, fs, exif) :
          Attempt("thumb", r, AfterThumb(mode, r.p))

ScanEmbeddedJpeg ==
    /\ pc = "scan"
    /\ \E r \in TryScanEmbeddedJpeg(in_path, out_path, fs) :
          Attempt("scan", r, AfterScan(mode, r.p))

Convert == OpenRaw \/ RawFull \/ RawHalf \/ LibrawThumb \/ ScanEmbeddedJpeg

\* --------------------------------------------------------------- main
\* results_dir.mkdir raises out of main, or the files are enumerated; with
\* none found main returns 0.
Start ==
    /\ pc = "start"
    /\ \/ /\ pc' = "crashed"
          /\ UNCHANGED <<nef_files, idx, exitCode>>
       \/ \E o \in WalkOrders(IterNefFiles(fs)) :
             /\ nef_files' = o
             /\ idx' = 1
             /\ pc' = IF o = <<>> THEN "done" ELSE "loop"
             /\ exitCode' = IF o = <<>> THEN 0 ELSE exitCode
    /\ ok' = 0
    /\ failed' = 0
    /\ UNCHANGED <<fs, mode, in_path, out_path, raw, attempts, writes,
                   fsBefore, fs0, exif, pixels, saved,
                   quality, writers, produced>>

\* The loop body up to the first step of convert_nef_to_jpg.
BeginFile ==
    /\ pc = "loop"
    /\ idx <= Len(nef_files)
    /\ in_path' = nef_files[idx]
    /\ out_path' = WithSuffix(OutPath(nef_files[idx]), JPG)
    /\ raw' = "none"
    /\ attempts' = <<>>
    /\ writes' = {}
    /\ fsBefore' = fs
    /\ pc' = Entry(mode)
    /\ saved' = NoSave
    /\ UNCHANGED <<fs, mode, nef_files, idx, ok, failed, exitCode, fs0, exif,
                   pixels, quality, writers, produced>>

\* convert_nef_to_jpg returned or raised: count the file, go to the next.
\* The loop body's locals, and the history kept for the file, end here.
Tally ==
    /\ pc \in {"return", "fail"}
    /\ ok' = TallyOk(ok, pc = "return")
    /\ failed' = TallyFailed(failed, pc = "return")
    /\ idx' = idx + 1
    /\ pc' = "loop"
    /\ in_path' = NoPath
    /\ out_path' = NoPath
    /\ raw' = "none"
    /\ attempts' = <<>>
    /\ writes' = {}
    /\ fsBefore' = fs
    /\ saved' = NoSave
    /\ produced' = IF pc = "return"
                   THEN Append(produced, [src |-> in_path,
                                          out |-> attempts[Len(attempts)].p])
                   ELSE produced
    /\ UNCHANGED <<fs, mode, nef_files, exitCode, fs0, exif, pixels, quality,
                   writers>>

\* The loop is over: the summary and the exit code.
Finish ==
    /\ pc = "loop"
    /\ idx > Len(nef_files)
    /\ exitCode' = ExitCode(failed)
    /\ pc' = "done"
    /\ UNCHANGED <<fs, mode, nef_files, idx, ok, failed, in_path, out_path,
                   raw, attempts, writes, fsBefore, fs0, exif, pixels, saved,
                   quality, writers, produced>>

Next ==
    \/ Start
    \/ BeginFile
    \/ OpenRaw
    \/ RawFull
    \/ RawHalf
    \/ LibrawThumb
    \/ ScanEmbeddedJpeg
    \/ Tally
    \/ Finish

Spec == Init /\ [][Next]_vars

\* ------------------------------------------------- a single conversion
\* Every buffer of at most n bytes.
Buffers(n) == UNION {[1..k -> Byte] : k \in 0..n}

ConvertSource == P(<<>>, <<"a">> \o NEF)

\* convert_nef_to_jpg is entered from main's loop for one raw file, of any
\* content, with the outputs of earlier runs in place.
InitConvert ==
    /\ \E data \in Buffers(MaxLen), k \in 0..MaxPrior :
          fs = AfterRuns(k, ConvertSource :> data)
    /\ exif = ConvertSource :> ""
    /\ pixels = DecodedPixels
    /\ saved = NoSave
    /\ quality = DefaultQuality
    /\ writers = <<>>
    /\ produced = <<>>
    /\ mode \in Modes
    /\ nef_files = <<ConvertSource>>
    /\ idx = 1
    /\ ok = 0
    /\ failed = 0
    /\ exitCode = -1
    /\ pc = Entry(mode)
    /\ in_path = ConvertSource
    /\ out_path = WithSuffix(OutPath(ConvertSource), JPG)
    /\ raw = "none"
    /\ attempts = <<>>
    /\ writes = {}
    /\ fsBefore = fs
    /\ fs0 = fs

SpecConvert == InitConvert /\ [][Convert]_vars

\* ------------------------------------------------ unique_path, called
\* The largest counter among the numbered files that may already exist.
MaxSuffix == 2
\* The largest number of successive calls on one desired path.
MaxCalls == 2

\* path with _k before its final extension, the form the loop aims at.
Numbered(path, k) ==
    WithName(path, StemOf(path.name) \o <<"_", ToString(k)>> \o Suffix(path.name))

\* The desired paths unique_path is called with: a plain name, a name whose
\* stem contains a dot, and a name without an extension.
DesiredPaths ==
    { P(<<"results">>, <<"a">> \o JPG),
      P(<<"results">>, <<"a", ".", "b">> \o JPG),
      P(<<"results">>, <<"a">>) }

\* The files that may exist beside them.
NearbyPaths ==
    DesiredPaths \cup {Numbered(d, k) : d \in DesiredPaths, k \in 1..MaxSuffix}

\* unique_path is about to be called: any desired path, any set of files.
InitUnique ==
    /\ \E S \in SUBSET NearbyPaths : fs = [p \in S |-> EncodedJpeg]
    /\ exif = NoExif
    /\ pixels = DecodedPixels
    /\ saved = NoSave
    /\ quality = DefaultQuality
    /\ writers = <<>>
    /\ produced = <<>>
    /\ out_path \in DesiredPaths
    /\ mode = "auto"
    /\ nef_files = <<>>
    /\ idx = 0
    /\ ok = 0
    /\ failed = 0
    /\ exitCode = -1
    /\ pc = "unique"
    /\ in_path = NoPath
    /\ raw = "none"
    /\ attempts = <<>>
    /\ writes = {}
    /\ fsBefore = fs
    /\ fs0 = fs

\* unique_path(out_path) against the files as they are now; fsBefore keeps
\* the files the call saw.
CallUniquePath ==
    /\ pc = "unique"
    /\ Len(attempts) < MaxCalls
    /\ LET target == UniquePath(out_path, DOMAIN fs)
       IN  /\ attempts' = Append(attempts, [s |-> "unique", p |-> target])
           /\ pc' = IF target = Hang THEN "hung" ELSE pc
    /\ fsBefore' = fs
    /\ UNCHANGED <<fs, mode, nef_files, idx, ok, failed, exitCode, in_path,
                   out_path, raw, writes, fs0, exif, pixels, saved,
                   quality, writers, produced>>

\* The caller creates the file at the path the last call returned.
CreateReturned ==
    /\ pc = "unique"
    /\ attempts # <<>>
    /\ LET target == attempts[Len(attempts)].p
       IN  /\ target \notin DOMAIN fs
           /\ fs' = WriteFile(fs, target, EncodedJpeg)
           /\ writes' = writes \cup {target}
    /\ UNCHANGED <<mode, nef_files, idx, ok, failed, exitCode, pc, in_path,
                   out_path, raw, attempts, fsBefore, fs0, exif, pixels, saved,
                   quality, writers, produced>>

NextUnique == CallUniquePath \/ CreateReturned

SpecUnique == InitUnique /\ [][NextUnique]_vars

\* ------------------------------------------------ the scan of one buffer
\* The largest number of pieces a scanned buffer is made of.
MaxChunks == 5

\* The pieces: a start marker, an end marker, or one byte.
Chunks == {SOI, EOI} \cup {<<b>> : b \in Byte}

RECURSIVE Concat(_)
Concat(pieces) ==
    IF pieces = <<>> THEN <<>> ELSE Head(pieces) \o Concat(Tail(pieces))

\* Every buffer of at most n pieces: every buffer of at most n bytes, and
\* longer ones that hold several markers.
ChunkedBuffers(n) == {Concat(ps) : ps \in UNION {[1..k -> Chunks] : k \in 0..n}}

\* Buffers that hold two spans of one length, each a start marker, one byte
\* and an end marker, with at most one byte between them.
TiedBuffers ==
    {SOI \o <<x>> \o EOI \o mid \o SOI \o <<y>> \o EOI :
        x \in Byte, y \in Byte, mid \in {<<>>} \cup {<<b>> : b \in Byte}}

\* _try_scan_embedded_jpeg is entered for one raw file, of any content, with
\* an empty results directory.
InitScan ==
    /\ \E data \in ChunkedBuffers(MaxChunks) \cup TiedBuffers :
          fs = ConvertSource :> data
    /\ exif = ConvertSource :> ""
    /\ pixels = DecodedPixels
    /\ saved = NoSave
    /\ quality = DefaultQuality
    /\ writers = <<>>
    /\ produced = <<>>
    /\ mode = "embedded"
    /\ nef_files = <<ConvertSource>>
    /\ idx = 1
    /\ ok = 0
    /\ failed = 0
    /\ exitCode = -1
    /\ pc = "scan"
    /\ in_path = ConvertSource
    /\ out_path = WithSuffix(OutPath(ConvertSource), JPG)
    /\ raw = "none"
    /\ attempts = <<>>
    /\ writes = {}
    /\ fsBefore = fs
    /\ fs0 = fs

SpecScan == InitScan /\ [][ScanEmbeddedJpeg]_vars

\* ----------------------------------------- the orientation of one decode
\* The largest height and width of a decoded image.
MaxDim == 2

\* Every image of at most n rows and n columns of two-valued pixels.
Images(n) == UNION {[1..h -> [1..w -> {0, 1}]] : h, w \in 1..n}

\* str(orientation): the seven codes of the chain, two codes it does not
\* name, and "" for a file without the tag.
OrientationValues ==
    {"Rotated 180", "Rotated 90 CW", "Rotated 90 CCW", "Mirrored",
     "Mirrored horizontal and rotated 90 CW",
     "Mirrored horizontal and rotated 90 CCW", "Mirrored vertical",
     "Horizontal (normal)", "Mirrored horizontal", ""}

\* The raw decode of one file begins (mode raw, the container opened): any
\* decoded image, any orientation in the raw file, and possibly a raw file
\* of the same stem inside results, of any orientation.
InitOrient ==
    /\ \E inside \in BOOLEAN, v, w \in OrientationValues :
          LET nef_path == OrientationSource(OutPath(ConvertSource))
          IN  /\ fs = IF inside THEN (ConvertSource :> <<0>>) @@ (nef_path :> <<0>>)
                      ELSE ConvertSource :> <<0>>
              /\ exif = IF inside THEN (ConvertSource :> v) @@ (nef_path :> w)
                        ELSE ConvertSource :> v
              /\ inside \/ w = ""
    /\ pixels \in Images(MaxDim)
    /\ saved = NoSave
    /\ quality = DefaultQuality
    /\ writers = <<>>
    /\ produced = <<>>
    /\ mode = "raw"
    /\ nef_files = <<ConvertSource>>
    /\ idx = 1
    /\ ok = 0
    /\ failed = 0
    /\ exitCode = -1
    /\ pc = "full"
    /\ in_path = ConvertSource
    /\ out_path = WithSuffix(OutPath(ConvertSource), JPG)
    /\ raw = "opened"
    /\ attempts = <<>>
    /\ writes = {}
    /\ fsBefore = fs
    /\ fs0 = fs

NextOrient == RawFull \/ RawHalf

SpecOrient == InitOrient /\ [][NextOrient]_vars

\* -------------------------------- scripts/sort_by_extension.py: the sorter
\* In this part a directory component is a one-element sequence, so that an
\* extension's folder, named by the extension's characters, is a component.
Dir(s) == <<s>>

\* get_file_extension: the suffix in lower case without its dot, or
\* "no_extension".
GetFileExtension(p) ==
    LET ext == LowerName(Suffix(p.name))
    IN  IF ext # <<>> THEN Tail(ext) ELSE Dir("no_extension")

\* main's exclude_dirs; a directory beside them named sorted_files... is
\* added to the set, and the model has none but sorted_files itself.
ExcludeDirs ==
    {Dir("sorted_files"), Dir("converted_videos"), Dir("results"), Dir("outputs"),
     Dir("dist"), Dir("build"), Dir(".git"), Dir(".venv"), Dir("__pycache__"),
     Dir("node_modules"), Dir(".vs"), Dir(".vscode")}

\* iter_all_files: the files of every directory no part of which is excluded.
IterAllFiles(f, exclude) ==
    {p \in DOMAIN f : \A i \in 1..Len(p.dir) : p.dir[i] \notin exclude}

\* shutil.move(src, dst): dst holds the bytes, src is gone.
MoveFile(f, src, dst) ==
    [q \in (DOMAIN f \ {src}) \cup {dst} |-> IF q = dst THEN f[src] ELSE f[q]]

\* sort_file_by_extension: mkdir or the move raises and nothing has changed,
\* or unique_path does not return, or the file is moved to the free path in
\* its extension's folder.
SortFileByExtension(file_path, f) ==
    LET ext_folder == <<Dir("sorted_files"), GetFileExtension(file_path)>>
        dest_path == UniquePath(P(ext_folder, file_path.name), DOMAIN f)
    IN  {Result(f, Raised, {})}
        \cup (IF dest_path = Hang THEN {Result(f, Hang, {})}
              ELSE {Result(MoveFile(f, file_path, dest_path), dest_path, {dest_path})})

\* The files a sorted tree may hold: two of one name, a name without an
\* extension, an upper-case extension, a name with a dot in its stem, and
\* files of earlier runs inside sorted_files and results.
SortUniverse ==
    { [path |-> P(<<>>, <<"a">> \o JPG), data |-> <<1>>],
      [path |-> P(<<Dir("sub")>>, <<"a">> \o JPG), data |-> <<2>>],
      [path |-> P(<<>>, <<"r">>), data |-> <<3>>],
      [path |-> P(<<>>, <<"a", ".", "N", "E", "F">>), data |-> <<4>>],
      [path |-> P(<<>>, <<"a", ".", "b">> \o JPG), data |-> <<5>>],
      [path |-> P(<<Dir("sorted_files"), <<"j", "p", "g">>>>, <<"a">> \o JPG),
       data |-> <<6>>],
      [path |-> P(<<Dir("sorted_files"), <<"j", "p", "g">>>>, <<"a", ".", "b">> \o JPG),
       data |-> <<7>>],
      [path |-> P(<<Dir("results")>>, <<"a">> \o JPG), data |-> <<8>>] }

\* The sorter's main is entered on a tree of files.
InitSort ==
    /\ \E S \in SUBSET SortUniverse :
          /\ Cardinality(S) <= MaxFiles + 1
          /\ fs = [p \in {u.path : u \in S} |-> (CHOOSE u \in S : u.path = p).data]
    /\ exif = NoExif
    /\ pixels = DecodedPixels
    /\ saved = NoSave
    /\ quality = DefaultQuality
    /\ writers = <<>>
    /\ produced = <<>>
    /\ mode = "auto"
    /\ nef_files = <<>>
    /\ idx = 0
    /\ ok = 0
    /\ failed = 0
    /\ exitCode = -1
    /\ pc = "sort_start"
    /\ in_path = NoPath
    /\ out_path = NoPath
    /\ raw = "none"
    /\ attempts = <<>>
    /\ writes = {}
    /\ fsBefore = fs
    /\ fs0 = fs

\* main up to the loop: sorted_dir.mkdir raises out of main; or the files are
\* listed (in nef_files, as all_files) and, none being found or the user
\* declining, main returns 0; or the loop is entered.
SortStart ==
    /\ pc = "sort_start"
    /\ \/ /\ pc' = "crashed"
          /\ UNCHANGED <<nef_files, idx, exitCode>>
       \/ \E o \in WalkOrders(IterAllFiles(fs, ExcludeDirs)), go \in BOOLEAN :
             /\ nef_files' = o
             /\ idx' = 1
             /\ pc' = IF o = <<>> \/ ~go THEN "sort_done" ELSE "sort_loop"
             /\ exitCode' = IF o = <<>> \/ ~go THEN 0 ELSE exitCode
    /\ UNCHANGED <<fs, mode, ok, failed, in_path, out_path, raw, attempts,
                   writes, fsBefore, fs0, exif, pixels, saved, quality, writers,
                   produced>>

\* One turn of the loop: sort_file_by_extension and the count.
SortFile ==
    /\ pc = "sort_loop"
    /\ idx <= Len(nef_files)
    /\ \E r \in SortFileByExtension(nef_files[idx], fs) :
          /\ fs' = r.fs
          /\ writes' = writes \cup r.w
          /\ pc' = IF r.p = Hang THEN "hung" ELSE pc
          /\ idx' = IF r.p = Hang THEN idx ELSE idx + 1
          /\ ok' = IF IsPath(r.p) THEN ok + 1 ELSE ok
          /\ failed' = IF r.p = Raised THEN failed + 1 ELSE failed
          /\ produced' = IF IsPath(r.p)
                         THEN Append(produced, [src |-> nef_files[idx], out |-> r.p])
                         ELSE produced
    /\ UNCHANGED <<mode, nef_files, exitCode, in_path, out_path, raw, attempts,
                   fsBefore, fs0, exif, pixels, saved, quality, writers>>

\* The loop is over: the report and the exit code.
SortFinish ==
    /\ pc = "sort_loop"
    /\ idx > Len(nef_files)
    /\ exitCode' = ExitCode(failed)
    /\ pc' = "sort_done"
    /\ UNCHANGED <<fs, mode, nef_files, idx, ok, failed, in_path, out_path,
                   raw, attempts, writes, fsBefore, fs0, exif, pixels, saved,
                   quality, writers, produced>>

NextSort == SortStart \/ SortFile \/ SortFinish

SpecSort == InitSort /\ [][NextSort]_vars

\* ------------------------------------- two conversions at the same time
\* The largest number of conversions running at once.
MaxWriters == 2

\* A conversion at its save: unique_path still to be called, the target
\* resolved and still to be opened, the file written, or unique_path not
\* returning.  alone: no other conversion has written since the target was
\* resolved.  clobbered: the target existed when it was opened.
Writer(at, target, alone, clobbered) ==
    [at |-> at, target |-> target, alone |-> alone, clobbered |-> clobbered]

\* The bytes conversion w writes.
WriterBytes(w) == SOI \o <<w>> \o EOI

\* Several conversions are about to save to one desired path (out_path), in
\* a directory holding any of the nearby files.
InitRace ==
    /\ \E S \in SUBSET NearbyPaths : fs = [p \in S |-> EncodedJpeg]
    /\ out_path \in DesiredPaths
    /\ \E n \in 1..MaxWriters :
          writers = [w \in 1..n |-> Writer("resolve", NoPath, TRUE, FALSE)]
    /\ exif = NoExif
    /\ pixels = DecodedPixels
    /\ saved = NoSave
    /\ quality = DefaultQuality
    /\ produced = <<>>
    /\ mode = "auto"
    /\ nef_files = <<>>
    /\ idx = 0
    /\ ok = 0
    /\ failed = 0
    /\ exitCode = -1
    /\ pc = "race"
    /\ in_path = NoPath
    /\ raw = "none"
    /\ attempts = <<>>
    /\ writes = {}
    /\ fsBefore = fs
    /\ fs0 = fs

\* target = unique_path(out_path.with_suffix(".jpg"))
WriterResolve(w) ==
    /\ pc = "race"
    /\ writers[w].at = "resolve"
    /\ LET target == UniquePath(out_path, DOMAIN fs)
       IN  writers' = [writers EXCEPT ![w] =
                          Writer(IF target = Hang THEN "hung" ELSE "write",
                                 target, TRUE, FALSE)]
    /\ UNCHANGED <<fs, mode, nef_files, idx, ok, failed, exitCode, pc, in_path,
                   out_path, raw, attempts, writes, fsBefore, fs0, exif, pixels,
                   saved, quality, produced>>

\* img.save(target, ...) / open(target, "wb") and f.write: the target is
\* created or truncated and written.
WriterWrite(w) ==
    /\ pc = "race"
    /\ writers[w].at = "write"
    /\ fs' = WriteFile(fs, writers[w].target, WriterBytes(w))
    /\ writes' = writes \cup {writers[w].target}
    /\ writers' = [v \in DOMAIN writers |->
                      IF v = w
                      THEN [writers[w] EXCEPT !.at = "done",
                                              !.clobbered = writers[w].target \in DOMAIN fs]
                      ELSE IF writers[v].at = "write"
                           THEN [writers[v] EXCEPT !.alone = FALSE]
                           ELSE writers[v]]
    /\ UNCHANGED <<mode, nef_files, idx, ok, failed, exitCode, pc, in_path,
                   out_path, raw, attempts, fsBefore, fs0, exif, pixels, saved,
                   quality, produced>>

NextRace ==
    \/ \E w \in DOMAIN writers : WriterResolve(w)
    \/ \E w \in DOMAIN writers : WriterWrite(w)

SpecRace == InitRace /\ [][NextRace]_vars

\* ------------------------------------------- a conversion at any quality
\* The least and the greatest --quality the runs are given; argparse's
\* type=int accepts every integer.
MinQualityArg == 0
MaxQualityArg == 101
QualityArgs == MinQualityArg..MaxQualityArg

\* convert_nef_to_jpg is entered for one raw file with any --quality.
InitQuality ==
    /\ fs = ConvertSource :> <<0, 255, 216, 255, 217>>
    /\ quality \in QualityArgs
    /\ mode \in Modes
    /\ exif = ConvertSource :> ""
    /\ pixels = DecodedPixels
    /\ saved = NoSave
    /\ writers = <<>>
    /\ produced = <<>>
    /\ nef_files = <<ConvertSource>>
    /\ idx = 1
    /\ ok = 0
    /\ failed = 0
    /\ exitCode = -1
    /\ pc = Entry(mode)
    /\ in_path = ConvertSource
    /\ out_path = WithSuffix(OutPath(ConvertSource), JPG)
    /\ raw = "none"
    /\ attempts = <<>>
    /\ writes = {}
    /\ fsBefore = fs
    /\ fs0 = fs

SpecQuality == InitQuality /\ [][Convert]_vars

\* ------------------------------------------------------------ the claims
Strategies == <<"full", "half", "thumb", "scan">>
Rank(s) == CHOOSE i \in 1..Len(Strategies) : Strategies[i] = s

\* Attempt i of the current file returned an output path / did not.
Succeeded(i) == IsPath(attempts[i].p)
Failed(i) == attempts[i].p \in {NoPath, Raised}
AnySucceeded == \E i \in 1..Len(attempts) : Succeeded(i)
Tried(s) == \E i \in 1..Len(attempts) : attempts[i].s = s
TriedAndFailed(s) == \E i \in 1..Len(attempts) : attempts[i].s = s /\ Failed(i)

\* C1: in mode auto the strategies are attempted only in the order full,
\* half, thumb, scan; none is attempted after one has succeeded; and one is
\* attempted only if each strategy before it failed, or was skipped because
\* the raw container could not be opened.
C1_AutoOrder ==
    mode = "auto" =>
        /\ \A i, j \in 1..Len(attempts) :
              i < j => Rank(attempts[i].s) < Rank(attempts[j].s)
        /\ \A i \in 1..(Len(attempts) - 1) : Failed(i)
        /\ \A i \in 1..Len(attempts) :
              \A k \in 1..(Rank(attempts[i].s) - 1) :
                 \/ TriedAndFailed(Strategies[k])
                 \/ raw = "failed" /\ ~Tried(Strategies[k])

\* C1's case: all four strategies were attempted and the last one succeeded.
C1_Witness ==
    /\ mode = "auto"
    /\ Len(attempts) = 4
    /\ Failed(1) /\ Failed(2) /\ Failed(3)
    /\ Succeeded(4)
    /\ pc = "return"

\* C2: in mode raw, when full and half-size decode both fail, or the raw
\* container cannot be opened, neither thumbnail extraction nor the byte scan
\* is attempted and the conversion reports a failure.
C2_RawOnly ==
    mode = "raw" =>
        /\ ~Tried("thumb") /\ ~Tried("scan")
        /\ (raw = "failed" \/ (TriedAndFailed("full") /\ TriedAndFailed("half")))
              => pc = "fail"

\* C2's case: raw mode, both decodes attempted and failed.
C2_Witness ==
    /\ mode = "raw"
    /\ TriedAndFailed("full") /\ TriedAndFailed("half")
    /\ pc = "fail"

\* C3: in mode embedded the byte scan is the only strategy attempted, the raw
\* container is never opened, and a scan that finds no candidate fails the
\* conversion.
C3_EmbeddedOnly ==
    mode = "embedded" =>
        /\ raw = "none"
        /\ pc # "open"
        /\ \A i \in 1..Len(attempts) : attempts[i].s = "scan"
        /\ (\E i \in 1..Len(attempts) : attempts[i].p = NoPath) => pc = "fail"

\* C3's case: embedded mode, the scan ran and found no candidate.
C3_Witness ==
    /\ mode = "embedded"
    /\ attempts = <<[s |-> "scan", p |-> NoPath]>>
    /\ pc = "fail"

\* The strategies the mode permits.
Permitted(m) ==
    CASE m = "auto" -> {"full", "half", "thumb", "scan"}
      [] m = "raw" -> {"full", "half"}
      [] m = "embedded" -> {"scan"}

\* Every strategy the mode permits has failed, or was skipped because the
\* raw container could not be opened.
AllPermittedFailed ==
    \A s \in Permitted(mode) :
       \/ TriedAndFailed(s)
       \/ s # "scan" /\ raw = "failed" /\ ~Tried(s)

\* C4: in every mode convert_nef_to_jpg returns normally if and only if an
\* attempted strategy returned an output path, and raises if every strategy
\* the mode permits failed.
C4_ReturnIffPath ==
    /\ (pc = "return") <=> AnySucceeded
    /\ (in_path # NoPath /\ AllPermittedFailed) => pc = "fail"
    /\ pc = "fail" => AllPermittedFailed

\* C4's case: auto mode, all four strategies failed and the call raised.
C4_Witness ==
    /\ mode = "auto"
    /\ Len(attempts) = 4
    /\ AllPermittedFailed
    /\ pc = "fail"

\* The files the current conversion has created.
Created == DOMAIN fs \ DOMAIN fsBefore

\* C5: a conversion creates exactly one file under the output directory when
\* it succeeds and none when it fails.
C5_OneFilePerSource ==
    /\ pc = "return" => Cardinality(Created) = 1
    /\ pc = "fail" => Cardinality(Created) = 0

\* The path the successful strategy returned.
WrittenPath == attempts[Len(attempts)].p

\* C6: the output of a successful conversion has the extension .jpg, begins
\* with the start-of-image marker FF D8 FF and ends with the end-of-image
\* marker FF D9.
C6_JpegOutput ==
    pc = "return" =>
        /\ Suffix(WrittenPath.name) = JPG
        /\ StartsWith(fs[WrittenPath], SOI)
        /\ EndsWith(fs[WrittenPath], EOI)

\* C6's case: the byte scan wrote a range cut out of a buffer that has
\* other bytes before and after it.
C6_Witness ==
    /\ pc = "return"
    /\ attempts[Len(attempts)].s = "scan"
    /\ Len(fs[WrittenPath]) < Len(fs[in_path]) - 1
    /\ fs[in_path][1] # 255

\* The raw files of the tree the run started on.
RawInputs == {p \in DOMAIN fs0 : EndsWith(LowerName(p.name), NEF)}

\* C7: every input raw file still exists with the contents it had when the run
\* began, and no path opened for writing is the path of an input file.
C7_InputsUntouched ==
    \A p \in RawInputs :
       /\ p \in DOMAIN fs
       /\ fs[p] = fs0[p]
       /\ p \notin writes

\* C7's case: a finished batch with a success written by the byte scan and a
\* failure.
C7_Witness ==
    /\ pc = "done"
    /\ ok >= 1
    /\ failed >= 1
    /\ \E p \in DOMAIN fs \ DOMAIN fs0 :
          Len(fs[p]) > 0 /\ fs[p] \notin {EncodedJpeg, ThumbJpeg}

\* The files that were in the output directory when the run began.
OutputsBefore == {p \in DOMAIN fs0 : p.dir # <<>> /\ Head(p.dir) = "results"}

C9_TallyStep ==
    \/ /\ idx' = idx + 1
       /\ \/ ok' = ok + 1 /\ failed' = failed
          \/ ok' = ok /\ failed' = failed + 1
    \/ /\ idx' = idx \/ pc = "start"
       /\ ok' = ok
       /\ failed' = failed

\* The counters add up to the number of files processed so far.
C9_TallyInv ==
    pc \notin {"start", "crashed"} =>
        /\ ok >= 0 /\ failed >= 0
        /\ ok + failed = idx - 1
        /\ (pc = "done" => ok + failed = Len(nef_files))

\* C9: every enumerated file increments exactly one of ok and failed, exactly
\* once: after k files ok + failed = k, and at the end ok + failed is the
\* number of files found.
C9_Tally == []C9_TallyInv /\ [][C9_TallyStep]_vars

\* C9's case: a finished batch of two files, one converted and one failed.
C9_Witness ==
    /\ pc = "done"
    /\ Len(nef_files) = 2
    /\ ok = 1
    /\ failed = 1

\* C10: main returns 0 if and only if no file failed, the case of no files
\* included, and a non-zero code if a file failed.
C10_ExitCode ==
    /\ pc = "done" => (exitCode = 0 <=> failed = 0)
    /\ pc = "done" => exitCode \in {0, 1}
    /\ (pc = "done" /\ nef_files = <<>>) => exitCode = 0
    /\ pc # "done" => exitCode = -1

\* C10's case: main returned after a batch in which a file failed.
C10_Witness ==
    /\ pc = "done"
    /\ failed >= 1
    /\ ok >= 1
    /\ exitCode = 1

\* main is inside its loop: a file is being converted or about to be counted.
Converting == pc \in {"open", "full", "half", "thumb", "scan", "return", "fail", "hung"}

\* C11: a file's failure never aborts the batch: the files are attempted in
\* enumeration order, one after another, and once the files are enumerated
\* the run either has printed its summary or can still take a step towards it.
C11_BatchCompletes ==
    /\ Converting => (idx \in 1..Len(nef_files) /\ in_path = nef_files[idx])
    /\ pc \notin {"start", "crashed"} => (pc = "done" \/ ENABLED Next)

\* C12: an I/O error while creating an output directory or writing an output
\* file never ends the batch: main does not die of it, and a step that raised
\* leaves the file to be counted as failed with the loop going on.
C12_IoErrorNotFatal ==
    /\ pc # "crashed"
    /\ (\E i \in 1..Len(attempts) : attempts[i].p = Raised) => pc = "fail"

\* The path returned by the i-th call of unique_path.
Returned(i) == attempts[i].p
LastCall == Len(attempts)

\* C13: whatever the desired path and the existing files, the path
\* unique_path returns is not among the files that existed when it returned.
C13_ReturnedIsFree ==
    (LastCall >= 1 /\ IsPath(Returned(LastCall)))
        => Returned(LastCall) \notin DOMAIN fsBefore

\* The desired path exists, so do its first numbered variants, and the call
\* returned a path beyond them.
C13_Witness ==
    /\ pc = "unique"
    /\ LastCall = 1
    /\ out_path \in DOMAIN fsBefore
    /\ Numbered(out_path, 1) \in DOMAIN fsBefore
    /\ IsPath(Returned(1))
    /\ Returned(1) # out_path

\* Two successive calls on one desired path with no file created in between:
\* both saw the starting files.
TwoCallsSameFiles == LastCall = 2 /\ fsBefore = fs0

\* C14 as stated: two successive calls on the same desired path against the
\* same starting files return two different paths, neither of which existed.
C14_TwoCallsDistinct ==
    TwoCallsSameFiles
        => /\ IsPath(Returned(1))
           /\ IsPath(Returned(2))
           /\ Returned(1) # Returned(2)
           /\ Returned(1) \notin DOMAIN fs0
           /\ Returned(2) \notin DOMAIN fs0

\* C14: when the path a call returned has been created before the next call
\* on the same desired path, the next call does not return that path again:
\* it returns a path that existed neither at the start nor after the
\* creation, or it does not return.
C14_DistinctOnceCreated ==
    (LastCall >= 2 /\ Returned(LastCall - 1) \in DOMAIN fsBefore)
        => /\ Returned(LastCall) # Returned(LastCall - 1)
           /\ IsPath(Returned(LastCall))
                 => Returned(LastCall) \notin DOMAIN fs0 \cup {Returned(LastCall - 1)}

\* The desired path existed, the first call's result was created, and the
\* second call returned another path.
C14_Witness ==
    /\ LastCall = 2
    /\ out_path \in DOMAIN fs0
    /\ Returned(1) \in writes
    /\ Returned(1) \in DOMAIN fsBefore
    /\ IsPath(Returned(2))
    /\ Returned(2) # Returned(1)

\* The smallest k >= 1 for which path numbered k is not among the files.
SmallestFree(path, files) ==
    CHOOSE k \in 1..(Cardinality(files) + 1) :
        /\ Numbered(path, k) \notin files
        /\ \A j \in 1..(k - 1) : Numbered(path, j) \in files

\* C15: unique_path returns the desired path when it does not exist, and
\* otherwise STEM_k + EXT for the smallest k >= 1 that does not exist, also
\* for a name whose stem contains a dot.
C15_SmallestNumbered ==
    LastCall >= 1
        => Returned(1) = IF out_path \notin DOMAIN fs0 THEN out_path
                         ELSE Numbered(out_path, SmallestFree(out_path, DOMAIN fs0))

\* C16: for every desired path and every finite set of existing files the
\* call of unique_path returns.
C16_Terminates ==
    /\ pc # "hung"
    /\ \A i \in 1..LastCall : Returned(i) # Hang

\* The buffer the scan read, its candidate ranges as the code collects them,
\* and the bytes of a range.
ScanData == fs[in_path]
ScanCandidates == {Candidates(ScanData)[i] : i \in 1..Len(Candidates(ScanData))}
RangeLen(c) == c[2] - c[1]
RangeBytes(c) == Slice(ScanData, c[1], c[2])
\* The scan has run and returned the path it wrote.
ScanReturned == Len(attempts) = 1 /\ attempts[1].s = "scan" /\ IsPath(attempts[1].p)
ScanWritten == fs[attempts[1].p]

\* C17: when the scan finds a candidate, the range it writes is a candidate
\* at least as long as every other; of two non-overlapping candidates of
\* different lengths it writes the longer, whichever comes first.
C17_LongestSelected ==
    ScanReturned
        => /\ \E c \in ScanCandidates :
                 /\ ScanWritten = RangeBytes(c)
                 /\ \A d \in ScanCandidates : RangeLen(d) <= RangeLen(c)
           /\ \A c, d \in ScanCandidates :
                 (ScanCandidates = {c, d} /\ c[2] <= d[1] /\ RangeLen(c) # RangeLen(d))
                     => ScanWritten = RangeBytes(IF RangeLen(c) > RangeLen(d) THEN c ELSE d)

\* Two non-overlapping spans, the second the longer, and the second written.
C17_Witness ==
    /\ ScanReturned
    /\ \E c, d \in ScanCandidates :
          /\ ScanCandidates = {c, d}
          /\ c[2] <= d[1]
          /\ RangeLen(c) < RangeLen(d)
          /\ ScanWritten = RangeBytes(d)
          /\ ScanWritten # RangeBytes(c)

\* The offsets at which pat occurs in the buffer.
Occurrences(pat) ==
    {j \in 0..(Len(ScanData) - Len(pat)) :
        \A k \in 1..Len(pat) : ScanData[j + k] = pat[k]}
\* The end markers usable for the start marker at s.
EndsAfter(s) == {e \in Occurrences(EOI) : e >= s + 2}
\* { [s, e+2) : s a start marker, e the smallest end marker at or after s+2 }
MarkedRanges ==
    {<<s, (CHOOSE e \in EndsAfter(s) : \A x \in EndsAfter(s) : e <= x) + 2>> :
        s \in {t \in Occurrences(SOI) : EndsAfter(t) # {}}}

\* C18: the scanner's candidates are exactly the ranges from each start
\* marker, overlapping ones included, to the end of the first end marker at
\* or after s+2; and a scan that read the file reports "not found" (no path,
\* nothing written, nothing raised) exactly when there is no such range.
C18_CandidateSet ==
    /\ ScanCandidates = MarkedRanges
    /\ (Len(attempts) = 1 /\ attempts[1].s = "scan")
          => /\ attempts[1].p = NoPath
                    => (MarkedRanges = {} /\ fs = fsBefore /\ writes = {})
             /\ (MarkedRanges = {} /\ attempts[1].p # Raised)
                    => attempts[1].p = NoPath

\* Overlapping start markers sharing one end marker: two candidates.
C18_Witness ==
    /\ ScanReturned
    /\ \E c, d \in MarkedRanges : c[1] + 2 = d[1] /\ c[2] = d[2]

\* The latest step was a full or half-size decode and it returned a path.
DecodeSucceeded ==
    /\ attempts # <<>>
    /\ attempts[Len(attempts)].s \in {"full", "half"}
    /\ IsPath(attempts[Len(attempts)].p)

\* C19: when a full or half-size decode succeeds, the orientation code used
\* on the image is the one of the raw file being converted, and no other
\* file was read for it.
C19_OrientationFromSource ==
    DecodeSucceeded
        => /\ saved.val = exif[in_path]
           /\ saved.src \in {NoPath, in_path}

\* The transforms the claim's table names, and their application in turn.
ClaimedTransforms(val) ==
    CASE val = "Rotated 180" -> <<"rotate 180">>
      [] val = "Rotated 90 CW" -> <<"rotate 270">>
      [] val = "Rotated 90 CCW" -> <<"rotate 90">>
      [] val = "Mirrored" -> <<"horizontal flip">>
      [] val = "Mirrored horizontal and rotated 90 CW" -> <<"vertical flip", "rotate 270">>
      [] val = "Mirrored horizontal and rotated 90 CCW" -> <<"vertical flip", "rotate 90">>
      [] val = "Mirrored vertical" -> <<"vertical flip">>
      [] OTHER -> <<>>
Transform(t, img) ==
    CASE t = "rotate 90" -> Rotate(img, 90)
      [] t = "rotate 180" -> Rotate(img, 180)
      [] t = "rotate 270" -> Rotate(img, 270)
      [] t = "horizontal flip" -> FlipLeftRight(img)
      [] t = "vertical flip" -> FlipTopBottom(img)
RECURSIVE Transformed(_, _)
Transformed(ts, img) ==
    IF ts = <<>> THEN img ELSE Transformed(Tail(ts), Transform(Head(ts), img))

\* C20: the image handed to the encoder is the decoded image put through the
\* transforms the table gives for the orientation code obtained, and is the
\* decoded image itself for every other code and for none.
C20_OrientationTable ==
    saved # NoSave => saved.img = Transformed(ClaimedTransforms(saved.val), pixels)

\* A two-step code was read and turned a wide image into a tall one.
C20_Witness ==
    /\ DecodeSucceeded
    /\ saved.val = "Mirrored horizontal and rotated 90 CW"
    /\ Height(pixels) = 1
    /\ Width(pixels) = 2
    /\ Height(saved.img) = 2
    /\ pixels[1][1] # pixels[1][2]

\* The latest step saved an image after its read of the orientation raised:
\* a file holding a code was opened for it and no code was obtained.
MetadataFailed ==
    /\ saved # NoSave
    /\ saved.src # NoPath
    /\ saved.val = ""
    /\ exif[saved.src] # ""
LatestFailed == attempts # <<>> /\ attempts[Len(attempts)].p = NoPath

\* A decode step whose read of the orientation raised fails only with a file
\* of its own opened, that is in the encode and write.
C21_FailsOnlyInWrite == (MetadataFailed' /\ LatestFailed') => DOMAIN fs' # DOMAIN fs

\* C21: a failure to read or parse the orientation never fails a decode
\* step: the image goes to the encoder unmodified, and the step fails only
\* if the encode and write fail.
C21_MetadataFailureHarmless ==
    /\ [](MetadataFailed => saved.img = pixels)
    /\ [][C21_FailsOnlyInWrite]_vars

\* The read raised on a file whose code would have changed the image, and
\* the decode step returned its output all the same.
C21_Witness ==
    /\ MetadataFailed
    /\ DecodeSucceeded
    /\ saved.img = pixels
    /\ ApplyOrientation(exif[saved.src], pixels) # pixels

\* The latest step was the thumbnail step and it returned a path.
ThumbReturned ==
    /\ attempts # <<>>
    /\ attempts[Len(attempts)].s = "thumb"
    /\ IsPath(attempts[Len(attempts)].p)

\* C22: the thumbnail step writes a JPEG preview verbatim; a pixel-buffer
\* preview it encodes at quality 90 whatever the requested quality, as it
\* is, with no orientation code applied.
C22_ThumbStep ==
    ThumbReturned
        => IF saved = NoSave
           THEN fs[attempts[Len(attempts)].p] = ThumbJpeg
           ELSE /\ saved.q = ThumbQuality
                /\ saved.val = ""
                /\ saved.img = pixels

\* The source's base name NAME, and NAME_k.jpg.
BaseName(nef) == StemOf(nef.name)
SuffixedJpg(nef, k) == BaseName(nef) \o <<"_", ToString(k)>> \o JPG

\* C23: the output of a successful conversion of base/REL/NAME.nef lies in
\* results/REL/ and is named NAME.jpg or NAME_k.jpg for some k >= 1, NAME
\* being the whole base name with any dots in it.
C23_OutputNaming ==
    pc = "return"
        => /\ WrittenPath.dir = <<"results">> \o in_path.dir
           /\ \/ WrittenPath.name = BaseName(in_path) \o JPG
              \/ \E k \in 1..Cardinality(DOMAIN fs) :
                    WrittenPath.name = SuffixedJpg(in_path, k)

\* A path inside the output directory, at any depth.
UnderResults(p) == p.dir # <<>> /\ Head(p.dir) = "results"

\* C24: no file under base/results, at any depth, is enumerated as a
\* conversion input.
C24_ResultsNotEnumerated ==
    \A i \in 1..Len(nef_files) : ~UnderResults(nef_files[i])

\* C25: after a run of the sorter every file it sorted is still at its
\* original location with its contents unchanged, and the sorted_files tree
\* holds a copy of it.
C25_OriginalsPreserved ==
    pc = "sort_done"
        => \A i \in 1..Len(produced) :
              /\ produced[i].src \in DOMAIN fs
              /\ fs[produced[i].src] = fs0[produced[i].src]
              /\ fs[produced[i].out] = fs0[produced[i].src]

\* A step of the chain in mode auto that is not the byte scan.
AutoBeforeScan == mode = "auto" /\ pc \in {"open", "full", "half", "thumb"}

\* C26: in mode auto no failure of the container's opening or of steps 1-3
\* ends the conversion: none of them leads to the failure report, which is
\* reached only with the byte scan attempted, last.
C26_AutoReachesScan ==
    /\ [][AutoBeforeScan => pc' # "fail"]_vars
    /\ []((mode = "auto" /\ pc = "fail")
            => (attempts # <<>> /\ attempts[Len(attempts)].s = "scan"))

\* The container could not be opened and the scan ran all the same.
C26_Witness ==
    /\ mode = "auto"
    /\ raw = "failed"
    /\ Len(attempts) = 1
    /\ attempts[1].s = "scan"

\* C27: a write targets a path that exists only when another conversion has
\* written between the resolution of the target and the write: used by one
\* conversion at a time, no write targets an existing path.
C27_OverwriteOnlyWhenRaced ==
    \A w \in DOMAIN writers : writers[w].clobbered => ~writers[w].alone

\* The interleaving: two conversions resolved the same target, both wrote,
\* and the second write replaced the first one's output.
C27_Witness ==
    \E v, w \in DOMAIN writers :
       /\ v # w
       /\ writers[v].at = "done"
       /\ writers[w].at = "done"
       /\ writers[v].target = writers[w].target
       /\ writers[w].clobbered
       /\ ~writers[v].clobbered
       /\ fs[writers[w].target] = WriterBytes(w)

\* The latest step was a full or half-size decode that called the encoder.
DecodeSaved ==
    /\ attempts # <<>>
    /\ attempts[Len(attempts)].s \in {"full", "half"}
    /\ saved # NoSave

\* C28: the quality the full and half-size decode steps hand to the encoder
\* is the configured quality and is an integer in 1..100, whatever value
\* --quality was given.
C28_QualityInRange ==
    DecodeSaved => (saved.q = quality /\ saved.q \in 1..100)

\* Two conversions of the run that returned, the first before the second,
\* whose sources lie in one directory and share a base name.
SameStem(i, j) ==
    /\ i < j
    /\ produced[i].src.dir = produced[j].src.dir
    /\ BaseName(produced[i].src) = BaseName(produced[j].src)

\* The output of the j-th returned conversion has a numbered name.
SuffixedOutput(j) ==
    /\ produced[j].out.dir = <<"results">> \o produced[j].src.dir
    /\ \E k \in 1..Cardinality(DOMAIN fs) :
          produced[j].out.name = SuffixedJpg(produced[j].src, k)

\* No two returned conversions of the run have one output path.
DistinctOutputs ==
    \A i, j \in 1..Len(produced) : i < j => produced[i].out # produced[j].out

\* A step leaves the output of every returned conversion as it was.
OutputsUnchanged ==
    \A i \in 1..Len(produced) :
        /\ produced[i].out \in DOMAIN fs'
        /\ fs'[produced[i].out] = fs[produced[i].out]

\* C29: within one run no two converted sources are written to one output
\* path; of two sources in one directory whose names share a stem the later is
\* written to a suffixed path; and the earlier output is left unchanged.
C29_NoSharedOutput ==
    /\ [](/\ DistinctOutputs
          /\ \A i, j \in 1..Len(produced) : SameStem(i, j) => SuffixedOutput(j))
    /\ [][OutputsUnchanged]_vars

\* The part of C29 that holds: distinct output paths, earlier outputs kept.
C29_DistinctAndKept == []DistinctOutputs /\ [][OutputsUnchanged]_vars

\* A candidate of the greatest length that starts before every other
\* candidate of that length.
EarliestLongest(c) ==
    /\ c \in ScanCandidates
    /\ \A d \in ScanCandidates : RangeLen(d) <= RangeLen(c)
    /\ \A d \in ScanCandidates : RangeLen(d) = RangeLen(c) => c[1] <= d[1]

\* C30: when several candidates share the greatest length the scan writes the
\* one with the smallest start offset, so the bytes written are determined by
\* the bytes read.
C30_EarliestOfLongest ==
    ScanReturned => \A c \in ScanCandidates :
                        EarliestLongest(c) => ScanWritten = RangeBytes(c)

\* C30's case: two candidates of the greatest length with different bytes,
\* and the earlier one written.
C30_Witness ==
    /\ ScanReturned
    /\ \E c, d \in ScanCandidates :
          /\ EarliestLongest(c)
          /\ c[1] < d[1]
          /\ RangeLen(d) = RangeLen(c)
          /\ RangeBytes(d) # RangeBytes(c)
          /\ ScanWritten = RangeBytes(c)

====
